---- MODULE Spec2Model ----
(***************************************************************************)
(* WBSlotsBot: the adaptive rate-limited polling scheduler (wb_monitor.py  *)
(* driven by main.py), the Google Sheets retrying caller                   *)
(* (google_sheets_parser.py) and the change-detection notifier             *)
(* (telegram_bot.py).                                                      *)
(*                                                                         *)
(* Time is counted in whole seconds.  time.time() is the variable now; a   *)
(* quotient of the source that is a float is computed exactly as a         *)
(* rational and truncated once, at the end, to whole seconds.              *)
(***************************************************************************)
EXTENDS Integers, Sequences, FiniteSets, TLC

VARIABLES
    \* ---- wb_monitor.py: WBSlotsMonitor ----
    now,                    \* time.time()
    pc,                     \* position of run_continuous_monitoring
    cycle_count,            \* self.cycle_count
    current_api_requests,   \* self.current_api_requests
    minute_start_time,      \* self.minute_start_time (NoTime is None)
    api_execution_times,    \* self.api_execution_times
    last_update,            \* self.last_update (NoTime is None)
    parsed_data,            \* self.parsed_data: "none", "empty" (no sheets), "ok"
    result,                 \* the dict returned by run_optimized_cycle
    next_pause,             \* next_pause of the loop
    pause_end,              \* the deadline of wait_for(..., timeout=next_pause)
    api_start,              \* api_start of run_api_request
    api_time,               \* api_time of run_api_request
    monitoring_results,     \* monitoring_results of run_api_request ("none": not bound)
    executor,               \* the executor thread running monitor_parsed_data
    \* ---- main.py ----
    shutdown,               \* shutdown_event.is_set()
    mode,                   \* "service" (main.py), "monitor" or "once" (wb_monitor.py)
    update_interval,        \* self.update_interval
    exit_report,            \* the exit status of a --once run and where its failure was printed
    watcher,                \* shutdown_watcher: "waiting" or "done"
    forceDeadline,          \* when force_exit calls os._exit(1) (NoTime: not armed)
    exited,                 \* "no", "normal", "forced"
    \* ---- history variables (observations, not program state) ----
    callStarts,             \* start times of the last remote monitoring calls
    recorded,               \* every duration calculate_adaptive_pause was called with
    pausedAt,               \* the time at which the current pause began
    signalAt,               \* [time, pc, cycles] when the signal arrived
    stoppedAt,              \* the time at which the loop stopped
    \* ---- google_sheets_parser.py: GoogleSheetsParser._retry_with_backoff ----
    r_pc,                   \* "idle", "calling", "sleeping", "returned", "raised"
    attempt,                \* attempt of the for loop
    api_requests_count,     \* self.api_requests_count
    retry_calls,            \* how many times _retry_with_backoff was entered
    outcomes,               \* history: the outcome of each invocation of func
    sleeps,                 \* history: wait_time of each sleep, in tenths of a second
    \* ---- telegram_bot.py: TelegramNotifier ----
    subscribers,            \* self.subscribers, in the dict's insertion order
    store,                  \* the content of subscriptions.json
    n_pc,                   \* position of send_notification: "idle", "awaiting", "sleeping"
    message,                \* message of the batch
    new_message_hash,       \* new_message_hash of the batch
    users_to_send,          \* users_to_send of the batch
    n_idx,                  \* index in users_to_send of the user being sent to
    batches,                \* how many times send_notification was entered
    batchStart,             \* history: self.subscribers when the batch began
    sentInBatch,            \* history: the users a send of this batch went to
    savesInBatch,           \* history: how often this batch has called save_subscriptions
    delivery,               \* history, per user: the sends of one snapshot in a row
    sendResults,            \* history, per user: how the last send to it ended
    \* ---- wb_api.py: WBMonitor.monitor_parsed_data ----
    w_pc,                   \* position of the monitoring call
    all_sheets_data,        \* the sheets read from the file: the products of each
    http_requests,          \* history: the requests the call has issued, with their outcome
    errors,                 \* result['errors']
    monitor_calls           \* how many times monitor_parsed_data was entered

schedVars == <<now, pc, cycle_count, current_api_requests, minute_start_time,
               api_execution_times, recorded, last_update, parsed_data, result, next_pause,
               pause_end, api_start, api_time, monitoring_results, executor,
               shutdown, watcher, mode, update_interval, exit_report,
               forceDeadline, exited, callStarts, pausedAt, signalAt, stoppedAt>>

retryVars == <<r_pc, attempt, api_requests_count, retry_calls, outcomes, sleeps>>

notifVars == <<subscribers, store, n_pc, message, new_message_hash, users_to_send, n_idx,
               batches, batchStart, sentInBatch, savesInBatch, delivery,
               sendResults>>

apiVars == <<w_pc, all_sheets_data, http_requests, errors, monitor_calls>>

vars == <<schedVars, retryVars, notifVars, apiVars>>

-----------------------------------------------------------------------------
(* Program constants *)

NoTime == -1
api_requests_per_minute == 6
api_pause_between_requests == 4
target_minute_duration == 60
MaxPause == 30
MinPause == 1
HistoryCap == 10
ForceExitDelay == 3
\* --interval of main.py and wb_monitor.py when it is not given.
DefaultInterval == 300

\* No exit status yet.
NoStatus == -1
NoReport == [status |-> NoStatus, reason |-> "none"]

(* Bounds of the model *)

MaxCycles == 7
\* The signal arrives during one of the first LastSignalCycle cycles.
LastSignalCycle == 5
\* Ctrl+C arrives during one of the first LastInterruptCycle cycles.
LastInterruptCycle == 2

\* Durations (seconds) a remote monitoring call, a source re-fetch and a
\* notification batch may take.
ApiTimes    == {0, 2}
ParseTimes  == {1}
NotifyTimes == {0}
\* How long after the loop reached its current position the signal may arrive.
SignalDelays == {0, 1}

Max(a, b) == IF a >= b THEN a ELSE b
Min(a, b) == IF a <= b THEN a ELSE b

RECURSIVE SumSeq(_)
SumSeq(s) == IF s = <<>> THEN 0 ELSE Head(s) + SumSeq(Tail(s))

\* s[-k:]
LastK(s, k) == IF Len(s) <= k THEN s ELSE SubSeq(s, Len(s) - k + 1, Len(s))

-----------------------------------------------------------------------------
(* wb_monitor.py: the pacer *)

\* The history keeps its first HistoryCap entries: the new one is dropped.
RecordTime_KeepOldest(times, t) ==
    LET appended == Append(times, t)
    IN  IF Len(appended) > HistoryCap THEN SubSeq(appended, 1, HistoryCap) ELSE appended

\* calculate_adaptive_pause, lines 66-70: the history after recording t.
RecordTime(times, t) ==
    LET appended == Append(times, t)
    IN  IF Len(appended) > HistoryCap THEN LastK(appended, HistoryCap) ELSE appended

\* remaining_time of lines 80-84 / 87-92.
RemainingTime(mst, t) ==
    IF mst # NoTime THEN Max(0, target_minute_duration - (t - mst))
    ELSE target_minute_duration

\* The pause is not capped at MaxPause (line 107 left out).
AdaptivePause_Uncapped(times, cur, mst, t) ==
    LET n == Len(times)
        remaining_requests == api_requests_per_minute - cur
        remaining_time == RemainingTime(mst, t)
    IN  IF remaining_requests <= 0
        THEN remaining_time
        ELSE Max(MinPause, (remaining_time * n - remaining_requests * SumSeq(times))
                              \div (remaining_requests * n))

\* The time the remaining calls will take is added to the remaining time
\* instead of being taken from it.
AdaptivePause_LatencyAdded(times, cur, mst, t) ==
    LET n == Len(times)
        remaining_requests == api_requests_per_minute - cur
        remaining_time == RemainingTime(mst, t)
    IN  IF remaining_requests <= 0
        THEN remaining_time
        ELSE Min(Max(MinPause,
                     (remaining_time * n + remaining_requests * SumSeq(times))
                         \div (remaining_requests * n)), MaxPause)

\* calculate_adaptive_pause, lines 73-109: the pause, given the history
\* (already holding the last call), the counter, the window start and the time.
AdaptivePause(times, cur, mst, t) ==
    LET n    == Len(times)
        S    == SumSeq(times)
        remaining_requests == api_requests_per_minute - cur
        remaining_time == RemainingTime(mst, t)
    IN  IF remaining_requests <= 0
        THEN remaining_time
        ELSE \* (remaining_time - remaining_requests * S/n) / remaining_requests
             LET q == (remaining_time * n - remaining_requests * S)
                        \div (remaining_requests * n)
             IN  Min(Max(MinPause, q), MaxPause)

-----------------------------------------------------------------------------
(* wb_monitor.py: one cycle and the continuous loop *)

\* run_optimized_cycle, lines 437-443: the cycle type, from the counter after
\* run_api_request.
CycleType(n) ==
    IF n = 1 THEN "parse_and_api"
    ELSE IF n < api_requests_per_minute THEN "api_only"
    ELSE "api_final"

\* The counter is never put back to 0.
CounterAfterCycle_NoReset(n) == n

\* run_optimized_cycle, lines 437-443: the counter the cycle leaves.
CounterAfterCycle(n) ==
    IF CycleType(n) = "api_final" THEN 0 ELSE n

\* A failed cycle waits a whole window.
FailurePause_Window == target_minute_duration

\* run_continuous_monitoring, line 516: the pause after a failed cycle.
FailurePause == api_pause_between_requests

\* run_continuous_monitoring, lines 489-524: the loop takes the cycle's result
\* res at time t, the counter being cnt, and enters the pause.  With --once
\* there is no loop: main takes the result.
EnterPause(t, res, cnt) ==
    /\ result' = res
    /\ current_api_requests' = cnt
    /\ now' = t
    /\ monitoring_results' = "none"
    /\ IF mode = "once"
       THEN \* wb_monitor.py, main, line 572: the result goes to main
            /\ pc' = "returned"
            /\ UNCHANGED <<last_update, api_execution_times, recorded, next_pause,
                           pause_end, pausedAt>>
       ELSE /\ IF res.success
               THEN /\ last_update' = t
                    /\ api_execution_times' =
                           RecordTime(api_execution_times, res.api_time)
                    /\ recorded' = Append(recorded, res.api_time)
                    /\ next_pause' = AdaptivePause(api_execution_times', cnt,
                                                   minute_start_time, t)
               ELSE /\ next_pause' = FailurePause
                    /\ UNCHANGED <<last_update, api_execution_times, recorded>>
            /\ pause_end' = t + next_pause'
            /\ pausedAt' = t
            /\ pc' = "pause"

\* run_optimized_cycle, lines 434-453, after run_api_request returned
\* success and api_time (elapsed) with the counter at n.
FinishCycle(t, success, elapsed, n) ==
    EnterPause(t, [success |-> success, api_time |-> elapsed,
                   cycle_type |-> CycleType(n)], CounterAfterCycle(n))

\* The process is alive and t is a time it lives to see: os._exit(1) ends it at
\* forceDeadline.
Alive(t) == exited = "no" /\ (forceDeadline = NoTime \/ t <= forceDeadline)

\* How many start times the history keeps.
KeepStarts == api_requests_per_minute + 1

\* run_api_request, lines 349-366: the call is handed to the executor at time t.
StartApi(t) ==
    /\ api_start' = t
    /\ executor' = "running"
    /\ callStarts' = LastK(Append(callStarts, t), KeepStarts)
    /\ now' = t
    /\ monitoring_results' = "none"
    /\ pc' = "inflight"

\* Every cycle begins a new minute cycle.
NewMinuteCycle_Always(n) == TRUE

\* run_optimized_cycle, line 414: a new minute cycle begins, with a re-fetch
\* of the source, when the counter is 0.
NewMinuteCycle(n) == n = 0

\* The stop flag is not looked at.
StopRequested_Never == FALSE

\* run_continuous_monitoring, line 468: shutdown_event and
\* shutdown_event.is_set(); wb_monitor.py on its own passes no event.
StopRequested == mode = "service" /\ shutdown

\* run_continuous_monitoring, lines 466-475, and run_optimized_cycle, lines
\* 411-418 and 428-432: the top of the loop.  The stop flag is checked first;
\* otherwise a cycle begins, with a re-fetch when the counter is 0.  With
\* --once, main (line 572) calls run_optimized_cycle and there is no loop.
LoopTop ==
    /\ pc = "top"
    /\ UNCHANGED <<retryVars, notifVars, apiVars>>
    /\ Alive(now)
    /\ IF StopRequested
       THEN /\ pc' = "stopped"
            /\ stoppedAt' = now
            /\ UNCHANGED <<now, api_time, monitoring_results, cycle_count,
                           current_api_requests,
                           minute_start_time, api_execution_times, recorded, last_update,
                           parsed_data, result, next_pause, pause_end, api_start,
                           executor, callStarts, pausedAt>>
       ELSE /\ cycle_count < MaxCycles
            /\ cycle_count' = IF mode = "once" THEN cycle_count ELSE cycle_count + 1
            /\ UNCHANGED <<api_time, stoppedAt>>
            /\ IF NewMinuteCycle(current_api_requests)
               THEN \* reset_minute_cycle, then run_parsing_cycle
                    /\ minute_start_time' = now
                    /\ current_api_requests' = 0
                    /\ pc' = "parsing"
                    /\ UNCHANGED <<now, monitoring_results,
                                   api_execution_times, recorded, last_update,
                                   parsed_data, result, next_pause, pause_end,
                                   api_start, executor, callStarts, pausedAt>>
               ELSE IF parsed_data = "none"
               THEN \* run_api_request, lines 342-347
                    /\ FinishCycle(now, FALSE, 0, current_api_requests)
                    /\ UNCHANGED <<minute_start_time, parsed_data, api_start,
                                   executor, callStarts>>
               ELSE /\ StartApi(now)
                    /\ UNCHANGED <<current_api_requests, minute_start_time,
                                   api_execution_times, recorded, last_update, parsed_data,
                                   result, next_pause, pause_end, pausedAt>>
    /\ UNCHANGED <<shutdown, watcher, forceDeadline, exited, signalAt,
                   mode, update_interval, exit_report>>

\* Only an exception makes the re-fetch fail (the test of line 313 left out).
ParseSucceeded_NotRaised(outcome) == outcome # "raise"

\* run_parsing_cycle, lines 313-338: 'success' of its result.  The re-fetch
\* raised ("raise"), yielded no sheets ("empty") or yielded sheets ("ok").
ParseSucceeded(outcome) == outcome = "ok"

\* run_parsing_cycle, lines 298-338, and run_optimized_cycle, lines 418-432:
\* the blocking re-fetch ends after d seconds; it raised, yielded no sheets,
\* or yielded sheets, and then run_api_request starts the call.
ParseDone(d, outcome) ==
    /\ pc = "parsing"
    /\ UNCHANGED <<retryVars, notifVars, apiVars>>
    /\ Alive(now + d)
    /\ UNCHANGED <<cycle_count, minute_start_time, api_time, shutdown, watcher,
                   mode, update_interval, exit_report,
                   forceDeadline, exited, signalAt, stoppedAt>>
    /\ parsed_data' = IF outcome = "raise" THEN parsed_data ELSE outcome
    /\ IF ParseSucceeded(outcome)
       THEN /\ StartApi(now + d)
            /\ UNCHANGED <<current_api_requests, api_execution_times, recorded,
                           last_update, result, next_pause, pause_end, pausedAt>>
       ELSE /\ EnterPause(now + d, [success |-> FALSE, api_time |-> 0,
                                    cycle_type |-> "parse_failed"],
                          current_api_requests)
            /\ UNCHANGED <<api_start, executor, callStarts>>

\* The watcher never cancels the monitor task.
CancelPending_Never == FALSE

\* main.py, shutdown_watcher, lines 137-141: the event is set and the watcher
\* has not run yet.  The watcher was made ready when the event was set, so it
\* runs, and cancels the monitor task, before the monitor task is resumed by
\* anything that became ready later.
CancelPending == shutdown /\ watcher = "waiting"

\* run_api_request, lines 362-378 and 401-407: monitor_parsed_data returns
\* after d seconds and the monitor task is resumed with its outcome.  It
\* returned its dict ("ok", or "remote_error" when a request failed:
\* monitor_parsed_data reports that in the dict and does not raise), and the
\* call is counted; or the call raised, and it is not.
ApiReturn(d, res) ==
    /\ pc = "inflight"
    /\ ~CancelPending
    /\ UNCHANGED <<retryVars, notifVars, apiVars>>
    /\ Alive(now + d)
    /\ executor' = "idle"
    /\ IF res = "raise"
       THEN /\ FinishCycle(now + d, FALSE, (now + d) - api_start,
                           current_api_requests)
            /\ UNCHANGED api_time
       ELSE /\ api_time' = (now + d) - api_start
            /\ monitoring_results' = res
            /\ current_api_requests' = current_api_requests + 1
            /\ now' = now + d
            /\ pc' = "notify"
            /\ UNCHANGED <<api_execution_times, recorded, last_update, result, next_pause,
                           pause_end, pausedAt>>
    /\ UNCHANGED <<cycle_count, minute_start_time, parsed_data, api_start,
                   shutdown, watcher, forceDeadline, exited, callStarts,
                   mode, update_interval, exit_report,
                   signalAt, stoppedAt>>

\* run_api_request, lines 381-391: send_notification returned (or raised an
\* Exception, which line 384 swallows); the cycle succeeded.
NotifyDone(d) ==
    /\ pc = "notify"
    /\ UNCHANGED <<retryVars, notifVars, apiVars>>
    /\ Alive(now + d)
    /\ FinishCycle(now + d, TRUE, api_time, current_api_requests)
    /\ UNCHANGED <<cycle_count, minute_start_time, parsed_data, api_start,
                   api_time, executor, shutdown, watcher, forceDeadline, exited,
                   mode, update_interval, exit_report,
                   callStarts, signalAt, stoppedAt>>

\* A blind sleep: the pause always runs to its end.
WaitOutcome_BlindSleep(isSet) == "timeout"

\* asyncio.wait_for(shutdown_event.wait(), timeout=next_pause), lines 527-534:
\* what ends the wait, the event being set or not.
WaitOutcome(isSet) == IF isSet THEN "set" ELSE "timeout"

\* run_continuous_monitoring, lines 526-536: the pause ends.  With no event
\* (line 536) it is asyncio.sleep(next_pause).
PauseEnd ==
    /\ pc = "pause"
    /\ UNCHANGED <<retryVars, notifVars, apiVars>>
    /\ IF mode = "service" /\ WaitOutcome(shutdown) = "set"
       THEN /\ Alive(now)
            /\ pc' = "stopped"
            /\ stoppedAt' = now
            /\ UNCHANGED now
       ELSE /\ Alive(pause_end)
            /\ now' = pause_end
            /\ pc' = "top"
            /\ UNCHANGED stoppedAt
    /\ UNCHANGED <<cycle_count, current_api_requests, minute_start_time,
                   api_execution_times, recorded, last_update, parsed_data, result,
                   next_pause, pause_end, api_start, api_time, monitoring_results,
                   executor, shutdown,
                   mode, update_interval, exit_report,
                   watcher, forceDeadline, exited, callStarts, pausedAt, signalAt>>

\* Whether the executor's thread has taken the call when the await of line
\* 362 is cancelled.  A call whose await is reached with the event already set
\* (the signal came during the blocking re-fetch of the same cycle) is
\* cancelled at once, while the executor's thread is taking it: either may
\* come first.
CallTaken ==
    IF pc = "inflight" /\ signalAt.pc = "parsing" THEN {TRUE, FALSE} ELSE {TRUE}

\* main.py, shutdown_watcher, lines 137-141: once the event is set and the
\* monitor task is suspended at an await, monitor_task.cancel() raises
\* CancelledError there.  run_api_request catches it (lines 393-400) and the
\* cycle ends as a failure; the executor thread keeps running a call it has
\* taken, and a call it has not taken is never made.  In the pause it reaches
\* line 538 and the loop ends.
Watcher ==
    /\ CancelPending
    /\ UNCHANGED <<retryVars, notifVars, apiVars>>
    /\ pc \in {"inflight", "notify", "pause", "stopped"}
    /\ Alive(now)
    /\ watcher' = "done"
    /\ CASE pc \in {"inflight", "notify"} ->
              /\ FinishCycle(now, FALSE, now - api_start, current_api_requests)
              /\ UNCHANGED stoppedAt
              /\ \E taken \in CallTaken :
                    IF taken
                    THEN UNCHANGED <<executor, callStarts>>
                    ELSE /\ executor' = "idle"
                         /\ callStarts' = SubSeq(callStarts, 1, Len(callStarts) - 1)
         [] pc = "pause" ->
              /\ pc' = "stopped"
              /\ stoppedAt' = now
              /\ UNCHANGED <<now, current_api_requests, api_execution_times, recorded,
                             last_update, result, next_pause, pause_end, pausedAt,
                             executor, callStarts, monitoring_results>>
         [] pc = "stopped" ->
              UNCHANGED <<now, pc, current_api_requests, api_execution_times, recorded,
                          last_update, result, next_pause, pause_end, pausedAt,
                          stoppedAt, executor, callStarts, monitoring_results>>
    /\ UNCHANGED <<cycle_count, minute_start_time, parsed_data, api_start,
                   api_time, shutdown, forceDeadline, exited, signalAt,
                   mode, update_interval, exit_report>>

\* main.py, signal_handler, lines 180-193: SIGINT/SIGTERM arrives dt seconds
\* after the loop reached its position (inside the pause when it is pausing);
\* it sets the event and starts the force_exit thread.
Signal(dt) ==
    /\ ~shutdown
    /\ mode = "service"
    /\ UNCHANGED <<retryVars, notifVars, apiVars>>
    /\ exited = "no"
    /\ cycle_count <= LastSignalCycle
    /\ IF pc = "pause" THEN now + dt < pause_end ELSE dt = 0
    /\ now' = now + dt
    /\ shutdown' = TRUE
    /\ forceDeadline' = now' + ForceExitDelay
    /\ signalAt' = [time |-> now', pc |-> pc, cycles |-> cycle_count]
    /\ UNCHANGED <<pc, cycle_count, current_api_requests, minute_start_time,
                   api_execution_times, recorded, last_update, parsed_data, result,
                   next_pause, pause_end, api_start, api_time, monitoring_results,
                   executor, watcher, exited, callStarts, pausedAt, stoppedAt,
                   mode, update_interval, exit_report>>

\* The executor thread of a call whose await was cancelled finishes.
ExecutorFinish ==
    /\ executor = "running"
    /\ UNCHANGED <<retryVars, notifVars, apiVars>>
    /\ pc # "inflight"
    /\ Alive(now)
    /\ executor' = "idle"
    /\ UNCHANGED <<now, pc, cycle_count, current_api_requests, minute_start_time,
                   api_execution_times, recorded, last_update, parsed_data, result,
                   next_pause, pause_end, api_start, api_time, monitoring_results,
                   shutdown, watcher,
                   mode, update_interval, exit_report,
                   forceDeadline, exited, callStarts, pausedAt, signalAt,
                   stoppedAt>>

\* main.py, lines 145-155 and 234-236: the loop has ended and asyncio.run
\* returns once the executor's thread is done.
ProcessExit ==
    /\ pc = "stopped"
    /\ UNCHANGED <<retryVars, notifVars, apiVars>>
    /\ executor = "idle"
    /\ Alive(now)
    /\ exited' = "normal"
    /\ UNCHANGED <<now, pc, cycle_count, current_api_requests, minute_start_time,
                   api_execution_times, recorded, last_update, parsed_data, result,
                   next_pause, pause_end, api_start, api_time, monitoring_results,
                   executor, shutdown,
                   mode, update_interval, exit_report,
                   watcher, forceDeadline, callStarts, pausedAt, signalAt,
                   stoppedAt>>

\* The signal handler starts no force_exit thread.
ForceExitArmed_Never == FALSE

\* main.py, force_exit, lines 185-189: whether the forced exit is due.
ForceExitArmed == forceDeadline # NoTime

\* main.py, force_exit, lines 185-189: os._exit(1), ForceExitDelay seconds
\* after the signal.
ForceExit ==
    /\ ForceExitArmed
    /\ UNCHANGED <<retryVars, notifVars, apiVars>>
    /\ exited = "no"
    /\ now' = forceDeadline
    /\ exited' = "forced"
    /\ UNCHANGED <<pc, cycle_count, current_api_requests, minute_start_time,
                   api_execution_times, recorded, last_update, parsed_data, result,
                   next_pause, pause_end, api_start, api_time, monitoring_results,
                   executor, shutdown,
                   mode, update_interval, exit_report,
                   watcher, forceDeadline, callStarts, pausedAt, signalAt,
                   stoppedAt>>

\* wb_monitor.py run on its own (line 584, asyncio.run(main())): the first
\* Ctrl+C makes asyncio.run cancel the main task, which is suspended at an
\* await.  In run_api_request CancelledError is caught (lines 393-400) and the
\* cycle ends as a failure, the executor's thread going on; in the pause it
\* reaches line 538 and the loop ends.  The monitor built by main (line 568)
\* has no telegram_notifier, so nothing is awaited after the call returned.
Interrupt ==
    /\ mode # "service"
    /\ UNCHANGED <<retryVars, notifVars, apiVars>>
    /\ exited = "no"
    /\ signalAt.pc = "none"
    /\ cycle_count <= LastInterruptCycle
    /\ pc \in {"inflight", "pause"}
    /\ signalAt' = [time |-> now, pc |-> pc, cycles |-> cycle_count]
    /\ IF pc = "pause"
       THEN /\ pc' = "stopped"
            /\ stoppedAt' = now
            /\ UNCHANGED <<now, current_api_requests, api_execution_times, recorded,
                           last_update, result, next_pause, pause_end, pausedAt,
                           monitoring_results>>
       ELSE /\ FinishCycle(now, FALSE, now - api_start, current_api_requests)
            /\ UNCHANGED stoppedAt
    /\ UNCHANGED <<cycle_count, minute_start_time, parsed_data, api_start,
                   api_time, executor, shutdown, watcher, forceDeadline, exited,
                   callStarts, mode, update_interval, exit_report>>

\* wb_monitor.py, main, lines 570-582: with --once the result of the one
\* cycle is printed with print(), and a failure ends in sys.exit(1).
MainOnce ==
    /\ mode = "once"
    /\ UNCHANGED <<retryVars, notifVars, apiVars>>
    /\ pc = "returned"
    /\ executor = "idle"
    /\ exited = "no"
    /\ exited' = "normal"
    /\ exit_report' = IF result.success
                      THEN [status |-> 0, reason |-> "none"]
                      ELSE [status |-> 1, reason |-> "stdout"]
    /\ UNCHANGED <<now, pc, cycle_count, current_api_requests, minute_start_time,
                   api_execution_times, recorded, last_update, parsed_data, result,
                   next_pause, pause_end, api_start, api_time, monitoring_results,
                   executor, shutdown, watcher, forceDeadline, callStarts,
                   pausedAt, signalAt, stoppedAt, mode, update_interval>>

-----------------------------------------------------------------------------
(* google_sheets_parser.py: _retry_with_backoff *)

max_retries == 3

\* How many times the parser enters _retry_with_backoff.
MaxRetryCalls == 2

\* What str(e) of a raised exception contains: "429", "quota", "limit"
\* (the last two in any case).
ErrorTexts == [has429 : BOOLEAN, hasQuota : BOOLEAN, hasLimit : BOOLEAN]

\* An invocation of func returns or raises.
FuncOutcomes == {[ok |-> TRUE]} \cup {[ok |-> FALSE, text |-> e] : e \in ErrorTexts}

\* Every error is taken for a quota error.
IsQuotaError_Always(e) == TRUE

\* _retry_with_backoff, line 112: the quota signature.
IsQuotaError(e) == e.has429 \/ e.hasQuota \/ e.hasLimit

\* The last attempt is not recognised.
IsLastAttempt_Never(a) == FALSE

\* _retry_with_backoff, line 108.
IsLastAttempt(a) == a = max_retries - 1

\* _retry_with_backoff, line 113: wait_time = (2 ** attempt) + (attempt * 0.1),
\* in tenths of a second.
RECURSIVE Pow2(_)
Pow2(k) == IF k = 0 THEN 1 ELSE 2 * Pow2(k - 1)
WaitTime(a) == 10 * Pow2(a) + a

RetryFrame == UNCHANGED <<schedVars, notifVars, apiVars>>

\* parse_metadata, line 127, or parse_products, line 167: the parser enters
\* _retry_with_backoff; line 102 starts the loop.
RetryBegin ==
    /\ r_pc \in {"idle", "returned", "raised"}
    /\ retry_calls < MaxRetryCalls
    /\ retry_calls' = retry_calls + 1
    /\ attempt' = 0
    /\ outcomes' = <<>>
    /\ sleeps' = <<>>
    /\ r_pc' = "calling"
    /\ UNCHANGED api_requests_count
    /\ RetryFrame

\* _retry_with_backoff, lines 103-119: one invocation of func and what
\* follows it.
RetryAttempt(o) ==
    /\ r_pc = "calling"
    /\ outcomes' = Append(outcomes, o)
    /\ IF o.ok
       THEN /\ api_requests_count' = api_requests_count + 1
            /\ r_pc' = "returned"
            /\ UNCHANGED sleeps
       ELSE IF IsLastAttempt(attempt)
       THEN /\ api_requests_count' = api_requests_count + 1
            /\ r_pc' = "raised"
            /\ UNCHANGED sleeps
       ELSE IF IsQuotaError(o.text)
       THEN /\ sleeps' = Append(sleeps, WaitTime(attempt))
            /\ r_pc' = "sleeping"
            /\ UNCHANGED api_requests_count
       ELSE /\ api_requests_count' = api_requests_count + 1
            /\ r_pc' = "raised"
            /\ UNCHANGED sleeps
    /\ UNCHANGED <<attempt, retry_calls>>
    /\ RetryFrame

\* _retry_with_backoff, lines 115-116 and 102: time.sleep returns, the attempt
\* is counted and the loop goes on; past range(max_retries) the function
\* falls off its end and returns None.
RetryWake ==
    /\ r_pc = "sleeping"
    /\ api_requests_count' = api_requests_count + 1
    /\ attempt' = attempt + 1
    /\ r_pc' = IF attempt' < max_retries THEN "calling" ELSE "returned"
    /\ UNCHANGED <<retry_calls, outcomes, sleeps>>
    /\ RetryFrame

InitRetry ==
    /\ r_pc = "idle"
    /\ attempt = 0
    /\ api_requests_count = 0
    /\ retry_calls = 0
    /\ outcomes = <<>>
    /\ sleeps = <<>>

\* The parser runs inside run_parsing_cycle; the signal handler of main.py may
\* set the event at any point of it.
NextRetry ==
    \/ RetryBegin
    \/ \E o \in FuncOutcomes : RetryAttempt(o)
    \/ RetryWake
    \/ Signal(0)

-----------------------------------------------------------------------------
(* telegram_bot.py: the subscriber table and send_notification *)

\* Users that talk to the bot, and how many delivery batches are run.
NumUsers == 2
MaxBatches == 2
Users == 1..NumUsers

\* The texts format_monitoring_message renders.
Messages == {"m1", "m2"}

NoHash == "None"
NoMessage == "none"

\* calculate_message_hash, lines 213-215: the SHA-256 hex digest of a text;
\* distinct texts have distinct digests, and no digest is None.
calculate_message_hash(m) ==
    CASE m = "m1" -> "sha256:a1"
      [] m = "m2" -> "sha256:b2"

\* What bot.send_message does: it returns, or raises with this text.
SendOutcomes == {"ok", "bot was blocked by the user", "chat not found",
                 "timeout"}

\* Every error is taken for an unreachable target.
IsUnreachable_Always(e) == TRUE

\* send_notification, line 491.
IsUnreachable(e) == e \in {"bot was blocked by the user", "chat not found"}

\* The keys of the dict.
Ids(subs) == {subs[i].id : i \in DOMAIN subs}

\* subs[u]["last_hash"]
HashOf(subs, u) == subs[CHOOSE i \in DOMAIN subs : subs[i].id = u].last_hash

\* subs[u]["last_hash"] = h, for a key that is present
SetHash(subs, u, h) ==
    [i \in DOMAIN subs |->
        IF subs[i].id = u THEN [id |-> u, last_hash |-> h] ELSE subs[i]]

\* subs[u] = {"last_hash": h}: a new key goes to the end
Assign(subs, u, h) ==
    IF u \in Ids(subs) THEN SetHash(subs, u, h)
    ELSE Append(subs, [id |-> u, last_hash |-> h])

\* del subs[u]
Remove(subs, u) ==
    LET Keep(r) == r.id # u IN SelectSeq(subs, Keep)

\* Only the subscribers that were never sent anything are selected.
UsersToSend_OnlyNew(subs, h) ==
    LET IsNew(r) == r.last_hash = NoHash
        sel == SelectSeq(subs, IsNew)
    IN  [i \in DOMAIN sel |-> sel[i].id]

\* Every subscriber is selected, whatever its hash.
UsersToSend_All(subs, h) == [i \in DOMAIN subs |-> subs[i].id]

\* send_notification, lines 455-465: the users whose last_hash differs from
\* the new hash, in the dict's order.
UsersToSend(subs, h) ==
    LET Differs(r) == r.last_hash # h
        sel == SelectSeq(subs, Differs)
    IN  [i \in DOMAIN sel |-> sel[i].id]

\* A delivered message is recorded for every subscriber.
RecordDelivery_ForAll(subs, u, h) ==
    [i \in DOMAIN subs |-> [id |-> subs[i].id, last_hash |-> h]]

\* A delivered message leaves the table as it was.
RecordDelivery_Forgotten(subs, u, h) == subs

\* send_notification, line 483.
RecordDelivery(subs, u, h) == SetHash(subs, u, h)

\* The entry is assigned whole, so a key that is gone is put back.
HashWrite_Upsert(subs, u, h) == [raised |-> FALSE, table |-> Assign(subs, u, h)]

\* send_notification, line 483, as a dict operation:
\* self.subscribers[user_id]["last_hash"] = h raises KeyError when the key is
\* gone and writes nothing.
HashWrite(subs, u, h) ==
    IF u \in Ids(subs)
    THEN [raised |-> FALSE, table |-> RecordDelivery(subs, u, h)]
    ELSE [raised |-> TRUE, table |-> subs]

\* str(k) and int(k) for a user id.
StrOf(u) == ToString(u)
IntOf(k) == CHOOSE u \in Users : ToString(u) = k

\* subscriptions.json does not exist.
MissingFile == [format |-> "missing"]

\* save_subscriptions, lines 69-80: what the file holds after the write:
\* {"subscribers": {str(k): v}}.
Saved(subs) ==
    [format |-> "new",
     subscribers |-> [i \in DOMAIN subs |->
                         [key |-> StrOf(subs[i].id), last_hash |-> subs[i].last_hash]]]

\* save_subscriptions, lines 76-77: what the file holds when the process ends
\* between open(..., 'w'), which empties the file, and the end of json.dump:
\* the text of the first k entries, cut short.
TornFile(subs, k) ==
    [format |-> "torn", subscribers |-> SubSeq(Saved(subs).subscribers, 1, k)]

\* The ids of a list, each once, in the order of their first occurrence: the
\* keys of a dict comprehension over the list.
RECURSIVE FirstOccurrences(_)
FirstOccurrences(ids) ==
    IF ids = <<>> THEN <<>>
    ELSE LET front == FirstOccurrences(SubSeq(ids, 1, Len(ids) - 1))
             x == ids[Len(ids)]
         IN  IF \E i \in DOMAIN front : front[i] = x THEN front
             ELSE Append(front, x)

\* The old format is read as the new one: there is no "subscribers" key and
\* the table is empty.
load_subscriptions_NoMigration(file) ==
    IF file.format = "new"
    THEN [i \in DOMAIN file.subscribers |->
             [id |-> IntOf(file.subscribers[i].key),
              last_hash |-> file.subscribers[i].last_hash]]
    ELSE <<>>

\* load_subscriptions, lines 46-67: the table read from the file.  A file
\* that does not exist leaves the table empty; so does one json.load cannot
\* read (line 65).
load_subscriptions(file) ==
    CASE file.format = "legacy" ->
             LET ids == FirstOccurrences(file.subscribed_users)
             IN  [i \in DOMAIN ids |-> [id |-> ids[i], last_hash |-> NoHash]]
      [] file.format = "new" ->
             [i \in DOMAIN file.subscribers |->
                 [id |-> IntOf(file.subscribers[i].key),
                  last_hash |-> file.subscribers[i].last_hash]]
      [] OTHER -> <<>>

\* History: a send of text m to user u starts.
NoteSend(dlv, u, m) ==
    [dlv EXCEPT ![u] = IF @.msg = m THEN [@ EXCEPT !.cnt = @ + 1]
                       ELSE [msg |-> m, cnt |-> 1, ok |-> FALSE]]

\* History: a command of user u was handled.
NoteCommand(dlv, u) ==
    [dlv EXCEPT ![u] = [msg |-> NoMessage, cnt |-> 0, ok |-> FALSE]]

\* History: how bot.send_message ended, o being "ok" or the text it raised:
\* delivered, the target unreachable (bot blocked, chat not found), or
\* another failure.
SendKind(o) ==
    IF o = "ok" THEN "ok"
    ELSE IF o \in {"bot was blocked by the user", "chat not found"} THEN "unreachable"
    ELSE "transient"

NotifFrame == UNCHANGED <<schedVars, retryVars, apiVars>>

\* send_notification, lines 474-481 and 497-498: the loop goes on from the
\* k-th user, the table being subs and the history dlv: the next send starts,
\* or the batch is over and the table is saved.
Proceed(k, subs, dlv) ==
    /\ subscribers' = subs
    /\ IF k < Len(users_to_send)
       THEN /\ n_idx' = k + 1
            /\ n_pc' = "awaiting"
            /\ sentInBatch' = sentInBatch \cup {users_to_send[k + 1]}
            /\ delivery' = NoteSend(dlv, users_to_send[k + 1], message)
            /\ UNCHANGED <<store, savesInBatch>>
       ELSE /\ n_idx' = k
            /\ n_pc' = "idle"
            /\ store' = Saved(subs)
            /\ savesInBatch' = savesInBatch + 1
            /\ delivery' = dlv
            /\ UNCHANGED sentInBatch

\* send_notification, lines 445-481: the batch begins with the rendered text
\* m; with no subscriber, or none selected, it returns at once; otherwise the
\* first send starts.
BeginBatch(m) ==
    /\ n_pc = "idle"
    /\ exited = "no"
    /\ batches < MaxBatches
    /\ batches' = batches + 1
    /\ savesInBatch' = 0
    /\ UNCHANGED sendResults
    /\ IF subscribers = <<>>
       THEN UNCHANGED <<subscribers, store, n_pc, message, new_message_hash,
                        users_to_send, n_idx, batchStart, sentInBatch, delivery>>
       ELSE /\ message' = m
            /\ new_message_hash' = calculate_message_hash(m)
            /\ users_to_send' = UsersToSend(subscribers, new_message_hash')
            /\ batchStart' = subscribers
            /\ IF users_to_send' = <<>>
               THEN /\ sentInBatch' = {}
                    /\ n_idx' = 0
                    /\ UNCHANGED <<subscribers, store, n_pc, delivery>>
               ELSE /\ n_idx' = 1
                    /\ n_pc' = "awaiting"
                    /\ sentInBatch' = {users_to_send'[1]}
                    /\ delivery' = NoteSend(delivery, users_to_send'[1], m)
                    /\ UNCHANGED <<subscribers, store>>
    /\ NotifFrame

\* send_notification, lines 476-495: bot.send_message to the n_idx-th user
\* returned or raised with text o.
SendResult(o) ==
    /\ n_pc = "awaiting"
    /\ exited = "no"
    /\ sendResults' = [sendResults EXCEPT ![users_to_send[n_idx]] = SendKind(o)]
    /\ LET u == users_to_send[n_idx] IN
       IF o = "ok"
       THEN IF ~HashWrite(subscribers, u, new_message_hash).raised
            THEN \* lines 483-485: the hash is recorded, then asyncio.sleep(0.1)
                 /\ subscribers' = HashWrite(subscribers, u, new_message_hash).table
                 /\ delivery' = [delivery EXCEPT ![u] =
                                    IF @.cnt = 1 THEN [@ EXCEPT !.ok = TRUE] ELSE @]
                 /\ n_pc' = "sleeping"
                 /\ UNCHANGED <<store, n_idx, sentInBatch, savesInBatch>>
            ELSE \* line 483 raises KeyError, which line 487 catches
                 Proceed(n_idx, subscribers, delivery)
       ELSE IF IsUnreachable(o)
       THEN IF u \in Ids(subscribers)
            THEN Proceed(n_idx, Remove(subscribers, u), delivery)
            ELSE \* line 492 raises KeyError inside the handler: the batch is
                 \* abandoned before line 498
                 /\ n_pc' = "idle"
                 /\ UNCHANGED <<subscribers, store, n_idx, sentInBatch,
                                savesInBatch, delivery>>
       ELSE Proceed(n_idx, subscribers, delivery)
    /\ UNCHANGED <<message, new_message_hash, users_to_send, batches, batchStart>>
    /\ NotifFrame

\* send_notification, line 485: asyncio.sleep(0.1) returns.
SleepDone ==
    /\ n_pc = "sleeping"
    /\ exited = "no"
    /\ Proceed(n_idx, subscribers, delivery)
    /\ UNCHANGED <<message, new_message_hash, users_to_send, batches, batchStart,
                   sendResults>>
    /\ NotifFrame

\* A handler changed the table to subs for user u and saved it.
Handled(u, subs) ==
    /\ exited = "no"
    /\ subscribers' = subs
    /\ store' = Saved(subs)
    /\ delivery' = NoteCommand(delivery, u)
    /\ sendResults' = [sendResults EXCEPT ![u] = "none"]
    /\ UNCHANGED <<n_pc, message, new_message_hash, users_to_send, n_idx,
                   batches, batchStart, sentInBatch, savesInBatch>>
    /\ NotifFrame

\* cmd_start, lines 86-92.
CmdStart(u) == Handled(u, Assign(subscribers, u, NoHash))

\* callback_unsubscribe, lines 117-123.
CallbackUnsubscribe(u) ==
    /\ u \in Ids(subscribers)
    /\ Handled(u, Remove(subscribers, u))

\* callback_subscribe, lines 141-147.
CallbackSubscribe(u) ==
    /\ u \notin Ids(subscribers)
    /\ Handled(u, Assign(subscribers, u, NoHash))

\* __init__, lines 29-44: the notifier is built while subscriptions.json
\* holds file.
InitNotifFrom(file) ==
    /\ store = file
    /\ subscribers = load_subscriptions(file)
    /\ n_pc = "idle"
    /\ message = NoMessage
    /\ new_message_hash = NoHash
    /\ users_to_send = <<>>
    /\ n_idx = 0
    /\ batches = 0
    /\ batchStart = <<>>
    /\ sentInBatch = {}
    /\ savesInBatch = 0
    /\ delivery = [u \in Users |-> [msg |-> NoMessage, cnt |-> 0, ok |-> FALSE]]
    /\ sendResults = [u \in Users |-> "none"]

\* The notifier of a first start: there is no subscriptions.json.
InitNotif == InitNotifFrom(MissingFile)

\* How many ids a file of the old format lists at most.
MaxLegacyIds == 3

\* The files a start may find: none, or one of the old format
\* ({"subscribed_users": [...]}), an id possibly listed twice.
StoreFiles ==
    {MissingFile} \cup
    {[format |-> "legacy", subscribed_users |-> l] :
        l \in UNION {[1..k -> Users] : k \in 0..MaxLegacyIds}}

\* The tables a save that may begin now would write: a handler's (lines 92,
\* 123, 147), or the one that ends the batch (line 498).
TablesToSave ==
    {Assign(subscribers, u, NoHash) : u \in Users}
        \cup {Remove(subscribers, u) : u \in Ids(subscribers)}
        \cup (IF n_pc = "sleeping" /\ n_idx = Len(users_to_send)
              THEN {subscribers} ELSE {})

\* The process is ended (os._exit, a kill) while save_subscriptions writes
\* the file, k entries being written; what the process held in memory is gone.
KilledInSave(k) ==
    /\ exited = "no"
    /\ \E t \in TablesToSave : k <= Len(t) /\ store' = TornFile(t, k)
    /\ exited' = "forced"
    /\ subscribers' = <<>>
    /\ n_pc' = "idle"
    /\ message' = NoMessage
    /\ new_message_hash' = NoHash
    /\ users_to_send' = <<>>
    /\ n_idx' = 0
    /\ batchStart' = <<>>
    /\ sentInBatch' = {}
    /\ savesInBatch' = 0
    /\ delivery' = [u \in Users |-> [msg |-> NoMessage, cnt |-> 0, ok |-> FALSE]]
    /\ sendResults' = [u \in Users |-> "none"]
    /\ UNCHANGED batches
    /\ UNCHANGED <<now, pc, cycle_count, current_api_requests, minute_start_time,
                   api_execution_times, recorded, last_update, parsed_data, result,
                   next_pause, pause_end, api_start, api_time, monitoring_results,
                   executor, shutdown,
                   mode, update_interval, exit_report,
                   watcher, forceDeadline, callStarts, pausedAt, signalAt,
                   stoppedAt>>
    /\ UNCHANGED <<retryVars, apiVars>>

NextNotif ==
    \/ \E m \in Messages : BeginBatch(m)
    \/ \E o \in SendOutcomes : SendResult(o)
    \/ SleepDone
    \/ \E u \in Users : CmdStart(u)
    \/ \E u \in Users : CallbackUnsubscribe(u)
    \/ \E u \in Users : CallbackSubscribe(u)
    \/ \E k \in 0..NumUsers : KilledInSave(k)

-----------------------------------------------------------------------------
(* wb_api.py: one monitoring call and its HTTP requests *)

\* How many monitoring calls are made, and the most sheets and the most
\* products of a sheet that parsed_data holds.
MaxMonitorCalls == 2
MaxSheets == 2
MaxProducts == 2

\* parsed_data['sheets']: the number of products of each sheet.
SheetInputs == UNION {[1..k -> 0..MaxProducts] : k \in 0..MaxSheets}

\* How a request ends: status 200, another status, or requests raises.
Responses == {"200", "500", "raised"}

\* Every response is taken for a success.
IsSuccess_Always(resp) == TRUE

\* get_warehouses, get_acceptance_coefficients, get_acceptance_options, lines
\* 31-50, 63-82, 102-121: 'success' of the dict they return.
IsSuccess(resp) == resp = "200"

\* check_available_slots_optimized, lines 195-206: len(all_products).
AllProducts(sheets) == SumSeq(sheets)

ApiFrame == UNCHANGED <<schedVars, retryVars, notifVars>>

\* monitor_parsed_data, lines 330-343: the file is read (or cannot be, and the
\* call returns) and check_available_slots_optimized begins.
MonitorParsedData(loaded, sheets) ==
    /\ w_pc \in {"idle", "returned"}
    /\ monitor_calls < MaxMonitorCalls
    /\ monitor_calls' = monitor_calls + 1
    /\ http_requests' = <<>>
    /\ errors' = <<>>
    /\ IF loaded
       THEN /\ all_sheets_data' = sheets
            /\ w_pc' = "warehouses"
       ELSE /\ all_sheets_data' = <<>>
            /\ w_pc' = "returned"
    /\ ApiFrame

\* check_available_slots_optimized, lines 174-183: the warehouses request; when
\* it fails the method returns.
GetWarehouses(resp) ==
    /\ w_pc = "warehouses"
    /\ http_requests' = Append(http_requests, [endpoint |-> "warehouses", response |-> resp])
    /\ IF IsSuccess(resp)
       THEN /\ w_pc' = "coefficients"
            /\ UNCHANGED errors
       ELSE /\ errors' = Append(errors, "warehouses")
            /\ w_pc' = "returned"
    /\ UNCHANGED <<all_sheets_data, monitor_calls>>
    /\ ApiFrame

\* check_available_slots_optimized, lines 185-209: the coefficients request;
\* whatever its outcome the products of all sheets are collected, and with no
\* product the options request is left out (line 209).
GetAcceptanceCoefficients(resp) ==
    /\ w_pc = "coefficients"
    /\ http_requests' = Append(http_requests, [endpoint |-> "coefficients", response |-> resp])
    /\ errors' = IF IsSuccess(resp) THEN errors ELSE Append(errors, "coefficients")
    /\ w_pc' = IF AllProducts(all_sheets_data) > 0 THEN "options" ELSE "returned"
    /\ UNCHANGED <<all_sheets_data, monitor_calls>>
    /\ ApiFrame

\* check_available_slots_optimized, lines 209-231: the options request, for
\* all products at once; the sheets are then processed without any request.
GetAcceptanceOptions(resp) ==
    /\ w_pc = "options"
    /\ http_requests' = Append(http_requests, [endpoint |-> "options", response |-> resp])
    /\ errors' = IF IsSuccess(resp) THEN errors ELSE Append(errors, "options")
    /\ w_pc' = "returned"
    /\ UNCHANGED <<all_sheets_data, monitor_calls>>
    /\ ApiFrame

InitApi ==
    /\ w_pc = "idle"
    /\ all_sheets_data = <<>>
    /\ http_requests = <<>>
    /\ errors = <<>>
    /\ monitor_calls = 0

NextApi ==
    \/ \E l \in BOOLEAN, sh \in SheetInputs : MonitorParsedData(l, sh)
    \/ \E r \in Responses : GetWarehouses(r)
    \/ \E r \in Responses : GetAcceptanceCoefficients(r)
    \/ \E r \in Responses : GetAcceptanceOptions(r)

-----------------------------------------------------------------------------
(* wb_monitor.py: calculate_adaptive_pause on its own *)

\* The latest time, the longest history and the durations the pacer is
\* tried on.
MaxPacerNow == 70
MaxPacerHistory == 3
\* How many durations are recorded when the history itself is looked at.
MaxRecorded == 12
PacerSamples == {0, 3, 20}

\* calculate_adaptive_pause, lines 55-109, called with the duration d.
CalculateAdaptivePause(d) ==
    /\ pc \in {"pacer", "history"}
    /\ Len(recorded) < (IF pc = "history" THEN MaxRecorded ELSE MaxPacerHistory)
    /\ api_execution_times' = RecordTime(api_execution_times, d)
    /\ recorded' = Append(recorded, d)
    /\ next_pause' = AdaptivePause(api_execution_times', current_api_requests,
                                   minute_start_time, now)
    /\ pausedAt' = now
    /\ UNCHANGED <<now, pc, cycle_count, current_api_requests, minute_start_time,
                   last_update, parsed_data, result, pause_end, api_start,
                   api_time, monitoring_results, executor, shutdown, watcher,
                   mode, update_interval, exit_report,
                   forceDeadline, exited,
                   callStarts, signalAt, stoppedAt>>
    /\ UNCHANGED <<retryVars, notifVars, apiVars>>

\* WBSlotsMonitor.__init__, lines 18-35, built in mode m with --interval
\* interval.
InitSchedFrom(m, interval) ==
    /\ now = 0
    /\ pc = "top"
    /\ cycle_count = 0
    /\ current_api_requests = 0
    /\ minute_start_time = NoTime
    /\ api_execution_times = <<>>
    /\ recorded = <<>>
    /\ last_update = NoTime
    /\ parsed_data = "none"
    /\ result = [success |-> FALSE, api_time |-> 0, cycle_type |-> "none"]
    /\ next_pause = 0
    /\ pause_end = 0
    /\ api_start = 0
    /\ api_time = 0
    /\ monitoring_results = "none"
    /\ executor = "idle"
    /\ shutdown = FALSE
    /\ mode = m
    /\ update_interval = interval
    /\ exit_report = NoReport
    /\ watcher = "waiting"
    /\ forceDeadline = NoTime
    /\ exited = "no"
    /\ callStarts = <<>>
    /\ pausedAt = 0
    /\ signalAt = [time |-> NoTime, pc |-> "none", cycles |-> 0]
    /\ stoppedAt = NoTime

\* main.py: the service, with the default --interval.
InitSched == InitSchedFrom("service", DefaultInterval)

NextSched ==
    \/ LoopTop
    \/ \E d \in ParseTimes, o \in {"ok", "empty", "raise"} : ParseDone(d, o)
    \/ \E d \in ApiTimes, r \in {"ok", "remote_error", "raise"} : ApiReturn(d, r)
    \/ \E d \in NotifyTimes : NotifyDone(d)
    \/ PauseEnd
    \/ Watcher
    \/ \E dt \in SignalDelays : Signal(dt)
    \/ ExecutorFinish
    \/ ProcessExit
    \/ ForceExit

\* The continuous monitoring service of main.py.
Init == InitSched /\ InitRetry /\ InitNotif /\ InitApi
Next == NextSched
Spec == Init /\ [][Next]_vars

\* The event loop runs a task that is ready, and the force_exit thread wakes
\* from its sleep; a remote call, a re-fetch or a delivery may never return.
SpecLive ==
    /\ Init /\ [][Next]_vars
    /\ WF_vars(LoopTop) /\ WF_vars(PauseEnd) /\ WF_vars(Watcher)
    /\ WF_vars(ProcessExit) /\ WF_vars(ForceExit)

\* The values of --interval that are tried.
Intervals == {60, DefaultInterval}

\* WBSlotsMonitor.__init__, lines 19-35, and calculate_adaptive_pause, lines
\* 102 and 107: the window and the pauses a monitor built with
\* update_interval = interval works with.  The interval is stored (line 19)
\* and read nowhere.
Baseline(interval) ==
    [window |-> target_minute_duration,
     failure_pause |-> api_pause_between_requests,
     min_pause |-> MinPause,
     max_pause |-> MaxPause]

\* wb_monitor.py run on its own, continuously or with --once.
InitMonitor ==
    /\ \E m \in {"monitor", "once"}, i \in Intervals : InitSchedFrom(m, i)
    /\ InitRetry
    /\ InitNotif
    /\ InitApi

NextMonitor ==
    \/ LoopTop
    \/ \E d \in ParseTimes, o \in {"ok", "empty", "raise"} : ParseDone(d, o)
    \/ \E d \in ApiTimes, r \in {"ok", "remote_error", "raise"} : ApiReturn(d, r)
    \/ \E d \in NotifyTimes : NotifyDone(d)
    \/ PauseEnd
    \/ Interrupt
    \/ ExecutorFinish
    \/ ProcessExit
    \/ MainOnce

SpecMonitor == InitMonitor /\ [][NextMonitor]_vars

\* The parser's calls of _retry_with_backoff.
SpecRetry == Init /\ [][NextRetry]_vars

\* The service starts on one of the files a start may find.
InitNotify ==
    InitSched /\ InitRetry /\ InitApi /\ \E f \in StoreFiles : InitNotifFrom(f)

\* Delivery batches interleaved with the bot's handlers.
SpecNotify == InitNotify /\ [][NextNotif]_vars

\* calculate_adaptive_pause on states drawn from its domain.
InitPacer ==
    /\ now \in 0..MaxPacerNow
    /\ pc = "pacer"
    /\ cycle_count = 0
    /\ current_api_requests \in 0..api_requests_per_minute
    /\ minute_start_time \in {NoTime, 0}
    /\ api_execution_times = <<>>
    /\ recorded = <<>>
    /\ last_update = NoTime
    /\ parsed_data = "none"
    /\ result = [success |-> FALSE, api_time |-> 0, cycle_type |-> "none"]
    /\ next_pause = 0
    /\ pause_end = 0
    /\ api_start = 0
    /\ api_time = 0
    /\ monitoring_results = "none"
    /\ executor = "idle"
    /\ shutdown = FALSE
    /\ mode = "service"
    /\ update_interval = DefaultInterval
    /\ exit_report = NoReport
    /\ watcher = "waiting"
    /\ forceDeadline = NoTime
    /\ exited = "no"
    /\ callStarts = <<>>
    /\ pausedAt = 0
    /\ signalAt = [time |-> NoTime, pc |-> "none", cycles |-> 0]
    /\ stoppedAt = NoTime
    /\ InitRetry
    /\ InitNotif
    /\ InitApi

NextPacer == \E d \in PacerSamples : CalculateAdaptivePause(d)

SpecPacer == InitPacer /\ [][NextPacer]_vars

\* The durations recorded when the history itself is looked at.
HistorySamples == {0, 3}

\* A monitor as built, whose calculate_adaptive_pause is called again and
\* again within the first window.
InitHistory ==
    /\ now = 0
    /\ pc = "history"
    /\ cycle_count = 0
    /\ current_api_requests = 1
    /\ minute_start_time = 0
    /\ api_execution_times = <<>>
    /\ recorded = <<>>
    /\ last_update = NoTime
    /\ parsed_data = "none"
    /\ result = [success |-> FALSE, api_time |-> 0, cycle_type |-> "none"]
    /\ next_pause = 0
    /\ pause_end = 0
    /\ api_start = 0
    /\ api_time = 0
    /\ monitoring_results = "none"
    /\ executor = "idle"
    /\ shutdown = FALSE
    /\ mode = "service"
    /\ update_interval = DefaultInterval
    /\ exit_report = NoReport
    /\ watcher = "waiting"
    /\ forceDeadline = NoTime
    /\ exited = "no"
    /\ callStarts = <<>>
    /\ pausedAt = 0
    /\ signalAt = [time |-> NoTime, pc |-> "none", cycles |-> 0]
    /\ stoppedAt = NoTime
    /\ InitRetry
    /\ InitNotif
    /\ InitApi

NextHistory == \E d \in HistorySamples : CalculateAdaptivePause(d)

SpecHistory == InitHistory /\ [][NextHistory]_vars

\* The monitoring calls of wb_api.py.
SpecApi == Init /\ [][NextApi]_vars

-----------------------------------------------------------------------------
(* The scheduler's claims *)

\* C1: after any sequence of cycles (successful, failed or source-failed),
\* current_api_requests is never greater than api_requests_per_minute.
C1_CounterWithinQuota == current_api_requests <= api_requests_per_minute

\* The counter stands at the quota, after a run in which a cycle failed.
C1_Witness ==
    /\ pc = "notify"
    /\ current_api_requests = api_requests_per_minute
    /\ cycle_count > api_requests_per_minute

\* C2: in any interval of target_minute_duration seconds at most
\* api_requests_per_minute remote monitoring calls are started.
C2_RollingQuota ==
    Len(callStarts) = KeepStarts =>
        callStarts[KeepStarts] - callStarts[1] >= target_minute_duration

\* C6: a signal that arrives during the pause stops the loop there: at the
\* time of the signal, before the pause's deadline, and with no further cycle.
C6_PauseInterrupted ==
    (shutdown /\ signalAt.pc = "pause") =>
        /\ pc \in {"pause", "stopped"}
        /\ cycle_count = signalAt.cycles
        /\ pc = "stopped" => (stoppedAt = signalAt.time /\ stoppedAt < pause_end)

\* The loop stopped on a signal that arrived in the middle of a pause.
C6_Witness ==
    /\ pc = "stopped"
    /\ signalAt.pc = "pause"
    /\ signalAt.time > pausedAt
    /\ signalAt.time + 1 < pause_end

\* C7: once the signal is set the process ends, and no cycle is started after
\* the one in progress.
C7_EventuallyTerminates ==
    /\ shutdown ~> (exited # "no")
    /\ [][shutdown => cycle_count' = cycle_count]_vars

\* The call in flight never returned and the forced exit ended the process.
C7_Witness ==
    /\ exited = "forced"
    /\ executor = "running"
    /\ pc = "stopped"

C9_FinalPauseIsRestOfWindow ==
    (pc = "pause" /\ result.success /\ result.cycle_type = "api_final") =>
        next_pause =
            Max(0, target_minute_duration - (pausedAt - minute_start_time))

\* C10: with calls remaining, the pause is
\* min(30, max(1, (remainingInWindow - remainingCalls * meanLatency) /
\* remainingCalls)), in whole seconds, and so lies between 1 and 30.
C10_PauseFormula ==
    LET rc == api_requests_per_minute - current_api_requests
        n  == Len(api_execution_times)
        R  == IF minute_start_time = NoTime THEN target_minute_duration
              ELSE Max(0, target_minute_duration - (pausedAt - minute_start_time))
        X  == R * n - rc * SumSeq(api_execution_times)   \* the quotient is X / D
        D  == rc * n
    IN  (n > 0 /\ rc > 0) =>
            /\ MinPause <= next_pause /\ next_pause <= MaxPause
            /\ X < D => next_pause = MinPause
            /\ X >= MaxPause * D => next_pause = MaxPause
            /\ (D <= X /\ X < MaxPause * D) =>
                   (next_pause * D <= X /\ X < (next_pause + 1) * D)

\* The pacer returned a pause strictly inside the two clamps, with a history
\* of several durations.
C10_Witness ==
    /\ pc = "pacer"
    /\ Len(api_execution_times) > 1
    /\ SumSeq(api_execution_times) > 0
    /\ current_api_requests < api_requests_per_minute
    /\ MinPause < next_pause /\ next_pause < MaxPause

\* C12: a call is counted in a window that began less than
\* target_minute_duration before the call started: once the window has
\* elapsed it is reset before the next call is accounted.
C12_ResetAtBoundary ==
    pc = "notify" => api_start - minute_start_time < target_minute_duration

\* The histories the pause of a state is compared with.
PacerHistories == UNION {[1..k -> PacerSamples] : k \in 1..MaxPacerHistory}

\* C11: the remaining time and the remaining calls being fixed, a history of
\* durations with a greater mean never gives a longer pause than the one
\* computed; and the pause is never negative.
C11_PauseMonotone ==
    Len(api_execution_times) > 0 =>
        /\ next_pause >= 0
        /\ \A h \in PacerHistories :
               SumSeq(h) * Len(api_execution_times)
                   >= SumSeq(api_execution_times) * Len(h)
               => AdaptivePause(h, current_api_requests, minute_start_time, now)
                      <= next_pause

\* The pacer returned a pause above the lower clamp, and a history with a
\* greater mean gives a strictly shorter one.
C11_Witness ==
    /\ pc = "pacer"
    /\ Len(api_execution_times) > 1
    /\ current_api_requests < api_requests_per_minute
    /\ next_pause > MinPause
    /\ \E h \in PacerHistories :
          /\ SumSeq(h) * Len(api_execution_times)
                 > SumSeq(api_execution_times) * Len(h)
          /\ AdaptivePause(h, current_api_requests, minute_start_time, now)
                 < next_pause

-----------------------------------------------------------------------------
(* The retrying caller's claims *)

\* C5: func is invoked at most max_retries times; when every attempt fails
\* with a quota error the call ends as a failure after exactly max_retries
\* invocations; nothing is invoked after a successful attempt.
C5_RetryBound ==
    LET AllQuota == \A i \in DOMAIN outcomes :
                        ~outcomes[i].ok /\ IsQuotaError(outcomes[i].text)
    IN  /\ Len(outcomes) <= max_retries
        /\ (AllQuota /\ Len(outcomes) = max_retries) => r_pc = "raised"
        /\ (AllQuota /\ r_pc \in {"raised", "returned"} /\ retry_calls > 0)
               => Len(outcomes) = max_retries
        /\ \A i \in DOMAIN outcomes :
               outcomes[i].ok => (i = Len(outcomes) /\ r_pc = "returned")

\* Three attempts, each failed with a quota error, the call raised.
C5_Witness ==
    /\ r_pc = "raised"
    /\ Len(outcomes) = max_retries
    /\ Len(sleeps) = max_retries - 1
    /\ \A i \in DOMAIN outcomes : ~outcomes[i].ok /\ IsQuotaError(outcomes[i].text)

-----------------------------------------------------------------------------
(* The notifier's claims *)

\* C3: a snapshot delivered to a subscriber is not sent to it again by the
\* next batch with the same snapshot, no command of that subscriber having
\* been handled since: one send in all.
C3_NoSecondSend ==
    \A u \in Users : delivery[u].ok => delivery[u].cnt = 1

\* A second batch with the same text as the first has run to its end, the
\* user having been delivered the text by the first.
C3_Witness ==
    \E u \in Users :
        /\ delivery[u].ok
        /\ batches >= 2
        /\ n_pc = "idle"
        /\ delivery[u].msg = message
        /\ u \in Ids(batchStart)
        /\ HashOf(batchStart, u) = new_message_hash

\* C4: a batch sends only to users that were subscribed when it began with a
\* last_hash (None included) different from the new hash.
C4_OnlyChanged ==
    \A u \in sentInBatch :
        /\ u \in Ids(batchStart)
        /\ HashOf(batchStart, u) # new_message_hash

\* A batch sent to one subscriber and passed over another whose last_hash
\* was the new hash.
C4_Witness ==
    /\ sentInBatch # {}
    /\ \E u \in Ids(batchStart) :
          /\ HashOf(batchStart, u) = new_message_hash
          /\ u \notin sentInBatch
    /\ \E u \in sentInBatch : HashOf(batchStart, u) = NoHash

\* A step in which the send in progress ends.
SendEnds == n_pc = "awaiting" /\ <<n_pc, n_idx>>' # <<n_pc, n_idx>>

\* A step in which a batch begins on a table that is not empty.
BatchBegins == n_pc = "idle" /\ batches' = batches + 1 /\ subscribers # <<>>

\* C13: a subscriber whose send failed with a target-unreachable error is
\* out of the table and, once the batch is over, out of the store (no command
\* of its own having been handled since).
C13_UnreachableRemoved ==
    \A u \in Users :
        sendResults[u] = "unreachable" =>
            /\ u \notin Ids(subscribers)
            /\ n_pc = "idle" => u \notin Ids(load_subscriptions(store))

\* C14: a send that fails with another error leaves the subscriber in the
\* table with its last_hash as it was; the next batch compares that hash with
\* its own, and so selects the subscriber when it carries the snapshot whose
\* send failed.
C14_TransientKept ==
    /\ [][(SendEnds /\ sendResults'[users_to_send[n_idx]] = "transient"
              /\ users_to_send[n_idx] \in Ids(subscribers))
             => /\ users_to_send[n_idx] \in Ids(subscribers')
                /\ HashOf(subscribers', users_to_send[n_idx])
                       = HashOf(subscribers, users_to_send[n_idx])]_vars
    /\ [][BatchBegins =>
             \A u \in Ids(subscribers) :
                 sendResults[u] = "transient" =>
                     LET selected == \E i \in DOMAIN users_to_send' :
                                         users_to_send'[i] = u
                     IN  /\ selected <=> HashOf(subscribers, u) # new_message_hash'
                         /\ message' = delivery[u].msg => selected]_vars

\* A second batch with the same text sends again to a subscriber whose send
\* failed in the first, while passing over one that was delivered the text.
C14_Witness ==
    /\ batches = 2
    /\ n_pc = "awaiting"
    /\ \E u \in sentInBatch :
          /\ delivery[u].msg = message
          /\ delivery[u].cnt = 2
          /\ sendResults[u] = "transient"
    /\ \E v \in Ids(batchStart) : HashOf(batchStart, v) = new_message_hash

\* The ids a file of the old format lists.
ListedIds(file) == {file.subscribed_users[i] : i \in DOMAIN file.subscribed_users}

\* C15: a table loaded from a file of the old format holds one subscriber per
\* listed id, each with last_hash None; the first batch selects each of them
\* once; and a batch with a snapshot that a subscriber was delivered, no
\* command of its own having been handled since, does not select it.
C15_LegacyLoad ==
    /\ []((store.format = "legacy" /\ batches = 0) =>
              /\ Ids(subscribers) = ListedIds(store)
              /\ Len(subscribers) = Cardinality(ListedIds(store))
              /\ \A i \in DOMAIN subscribers : subscribers[i].last_hash = NoHash)
    /\ [][(store.format = "legacy" /\ batches = 0 /\ BatchBegins) =>
              /\ {users_to_send'[i] : i \in DOMAIN users_to_send'} = ListedIds(store)
              /\ Len(users_to_send') = Cardinality(ListedIds(store))]_vars
    /\ [][BatchBegins =>
              \A u \in Users :
                  (delivery[u].ok /\ delivery[u].msg = message') =>
                      \A i \in DOMAIN users_to_send' : users_to_send'[i] # u]_vars

\* The first batch after a start on a file of the old format that lists an
\* id twice: the last of the two subscribers is being sent to.
C15_Witness ==
    /\ store.format = "legacy"
    /\ Len(store.subscribed_users) = 3
    /\ batches = 1
    /\ n_pc = "awaiting"
    /\ Len(users_to_send) = 2
    /\ n_idx = 2
    /\ delivery[users_to_send[1]].ok

\* C16: whenever the process ends, subscriptions.json holds a whole table,
\* the one before the save or the one saved, never a part of one.
C16_AtomicSave ==
    exited # "no" => store.format \in {"missing", "legacy", "new"}

\* C17: between batches, every handler and every batch that changed the
\* table having saved it, subscriptions.json holds the table that is in
\* memory.
C17_StoreMatchesTable ==
    (n_pc = "idle" /\ exited = "no") => load_subscriptions(store) = subscribers

\* C18: while a batch is in progress no handler changes the table: a step
\* that is not the batch's own leaves it as it is.
C18_Serialized ==
    [][(n_pc # "idle" /\ n_pc' = n_pc /\ n_idx' = n_idx /\ exited' = "no")
          => subscribers' = subscribers]_vars

-----------------------------------------------------------------------------
(* Claims about the scheduler and the signal (Spec) *)

\* C19: when the signal is set before a cycle's remote call begins (at the top
\* of the loop, or during the re-fetch of that cycle), the call is not
\* issued: once the watcher has cancelled the task, no call is running.
C19_NoCallAfterSignal ==
    (shutdown /\ signalAt.pc \in {"top", "parsing"} /\ watcher = "done")
        => executor = "idle"

\* C20: when the signal is set while a remote call is in flight, the call is
\* left to finish (cancelling the task leaves the executor's thread running),
\* its result is never rendered nor notified (the loop never reaches the
\* notification of that call) and the cycle ends as a failure.
C20_InFlightDiscarded ==
    /\ []((shutdown /\ signalAt.pc = "inflight")
            => /\ pc # "notify"
               /\ pc \in {"pause", "stopped"} => ~result.success)
    /\ [][(signalAt.pc = "inflight" /\ watcher = "waiting" /\ watcher' = "done")
            => (executor' = "running" /\ callStarts' = callStarts
                /\ current_api_requests' = current_api_requests)]_vars

C20_Witness ==
    /\ signalAt.pc = "inflight"
    /\ watcher = "done"
    /\ pc = "stopped"
    /\ ~result.success
    /\ signalAt.time = api_start
    /\ executor = "running"
    /\ cycle_count > 1

-----------------------------------------------------------------------------
(* Claims about the retrying caller and the signal (SpecRetry) *)

\* C21: once the signal is set, _retry_with_backoff begins no backoff sleep:
\* an attempt that fails after the signal ends the call.
C21_NoSleepAfterSignal ==
    [][(shutdown /\ r_pc = "calling") => r_pc' # "sleeping"]_vars

-----------------------------------------------------------------------------
(* Claims about the cycle's outcome (Spec) *)

\* C22: send_notification is entered only with the result of a remote call
\* that succeeded: a call that returned an error is not handed to the
\* notifier.
C22_OnlySuccessNotified ==
    pc = "notify" => monitoring_results = "ok"

\* C23: a cycle whose remote call returned an error ends as a failure: the
\* loop waits the fixed failure pause and leaves last_update alone.
C23_FailedCallBacksOff ==
    [][(pc = "notify" /\ monitoring_results = "remote_error" /\ pc' = "pause")
          => /\ ~result'.success
             /\ next_pause' = FailurePause
             /\ last_update' = last_update]_vars

-----------------------------------------------------------------------------
(* Claims about wb_monitor.py run on its own (SpecMonitor) *)

\* C24: a cycle never starts its remote call while the call of an earlier
\* cycle is still running in the executor.
C24_OneCallInFlight ==
    [][(pc # "inflight" /\ pc' = "inflight") => executor = "idle"]_vars

\* C25: a --once run ends with status 0 when its one cycle succeeded and with
\* a non-zero status when it failed, the reason of the failure having been
\* written to standard error.
C25_OnceReport ==
    (mode = "once" /\ exited # "no") =>
        /\ result.success => exit_report.status = 0
        /\ ~result.success => (exit_report.status > 0 /\ exit_report.reason = "stderr")

\* C26: the value of --interval sets the window or the pauses: a run with
\* another value would work with another window or other pauses.
C26_IntervalSetsBaseline ==
    \A i \in Intervals \ {update_interval} :
        Baseline(i) # Baseline(update_interval)

-----------------------------------------------------------------------------
(* More claims about the notifier (SpecNotify) *)

\* C27: delivery converges.  A send that succeeds leaves the subscriber's
\* last_hash equal to the snapshot's; as long as it differs every batch
\* selects the subscriber, and once it is equal no batch with that snapshot
\* does; and last_hash changes only by a delivery or by a command of the
\* subscriber itself.
C27_Convergent ==
    /\ [][\A u \in Users :
            (SendEnds /\ users_to_send[n_idx] = u /\ sendResults'[u] = "ok"
                /\ u \in Ids(subscribers))
              => /\ u \in Ids(subscribers')
                 /\ HashOf(subscribers', u) = new_message_hash]_vars
    /\ [][BatchBegins =>
            \A u \in Ids(subscribers) :
                (\E i \in DOMAIN users_to_send' : users_to_send'[i] = u)
                    <=> HashOf(subscribers, u) # new_message_hash']_vars
    /\ [][\A u \in Ids(subscribers) \cap Ids(subscribers') :
            HashOf(subscribers', u) # HashOf(subscribers, u)
              => \/ HashOf(subscribers', u) = NoHash /\ n_pc' = n_pc
                 \/ /\ SendEnds /\ users_to_send[n_idx] = u
                    /\ sendResults'[u] = "ok"
                    /\ HashOf(subscribers', u) = new_message_hash]_vars

\* A subscriber whose first send of a snapshot failed was sent it again by the
\* second batch, with success: its last_hash is the snapshot's.
C27_Witness ==
    /\ batches = 2
    /\ n_pc = "idle"
    /\ \E u \in Ids(subscribers) :
          /\ sendResults[u] = "ok"
          /\ delivery[u].msg = message
          /\ delivery[u].cnt = 2
          /\ HashOf(subscribers, u) = new_message_hash
          /\ u \in Ids(load_subscriptions(store))

-----------------------------------------------------------------------------
(* More claims about the loop (Spec) *)

\* C28: when the event is set at the top of the loop, the loop stops: the
\* cycle is not counted, the source is not re-fetched, the window is not
\* restarted and no remote call is started.
C28_StopCheckedFirst ==
    [][(pc = "top" /\ shutdown /\ pc' # "top")
         => /\ pc' = "stopped"
            /\ cycle_count' = cycle_count
            /\ minute_start_time' = minute_start_time
            /\ parsed_data' = parsed_data
            /\ current_api_requests' = current_api_requests
            /\ callStarts' = callStarts
            /\ executor' = executor]_vars

\* The signal arrived with the loop at its top, a re-fetch being due, and the
\* loop has stopped there.
C28_Witness ==
    /\ pc = "stopped"
    /\ signalAt.pc = "top"
    /\ stoppedAt = signalAt.time
    /\ cycle_count = signalAt.cycles
    /\ cycle_count > 0
    /\ current_api_requests = 0

\* C29: a cycle re-fetches the source and restarts the window exactly when the
\* counter is 0 at its start; and while no cycle has failed (every cycle so
\* far left its latency in the history) the re-fetch is made by the cycles 1,
\* 7, 13, ...: once per api_requests_per_minute remote calls.
C29_RefetchAtWindowStart ==
    [][(pc = "top" /\ pc' \notin {"top", "stopped"})
         => /\ (pc' = "parsing" /\ minute_start_time' = now)
                  <=> current_api_requests = 0
            /\ current_api_requests # 0
                  => /\ minute_start_time' = minute_start_time
                     /\ parsed_data' = parsed_data
            /\ Len(api_execution_times) = cycle_count
                  => (pc' = "parsing"
                        <=> cycle_count % api_requests_per_minute = 0)]_vars

\* After six cycles without a failure, the seventh is re-fetching the source
\* in a new window.
C29_Witness ==
    /\ pc = "parsing"
    /\ cycle_count = api_requests_per_minute + 1
    /\ Len(api_execution_times) = api_requests_per_minute
    /\ current_api_requests = 0
    /\ minute_start_time = now
    /\ Len(callStarts) = api_requests_per_minute

\* C30: a re-fetch that raises or yields no sheets ends the cycle as a
\* failure: no remote call is started (a call follows only a re-fetch that
\* yielded sheets), the counter stays 0, and the cycle after a failed re-fetch
\* re-fetches again.
C30_FailedRefetch ==
    /\ [][(pc = "parsing" /\ pc' = "inflight") => parsed_data' = "ok"]_vars
    /\ [][(pc = "parsing" /\ pc' \notin {"parsing", "inflight"})
            => /\ ~result'.success
               /\ result'.cycle_type = "parse_failed"
               /\ current_api_requests = 0
               /\ current_api_requests' = 0
               /\ callStarts' = callStarts
               /\ executor' = executor]_vars
    /\ [][(pc = "top" /\ result.cycle_type = "parse_failed"
             /\ pc' \notin {"top", "stopped"})
            => pc' = "parsing"]_vars

\* The re-fetch of the first cycle yielded no sheets, no call has been made,
\* and the second cycle is re-fetching.
C30_Witness ==
    /\ pc = "parsing"
    /\ cycle_count = 2
    /\ result.cycle_type = "parse_failed"
    /\ parsed_data = "empty"
    /\ current_api_requests = 0
    /\ callStarts = <<>>

-----------------------------------------------------------------------------
(* Claims about what a batch sends and saves (SpecNotify) *)

\* C31: a call of send_notification that finds no subscriber, or no
\* subscriber whose last_hash differs from the hash of the rendered text,
\* starts no send, leaves the table as it is and does not save it.
C31_EmptyBatchIsSilent ==
    [][(n_pc = "idle" /\ batches' = batches + 1
          /\ \/ subscribers = <<>>
             \/ \A u \in Ids(subscribers) :
                    HashOf(subscribers, u) = new_message_hash')
         => /\ n_pc' = "idle"
            /\ subscribers' = subscribers
            /\ store' = store
            /\ savesInBatch' = 0
            /\ delivery' = delivery
            /\ sendResults' = sendResults]_vars

\* The second call found every subscriber at the hash of its text: nothing was
\* selected and nothing saved, the file still being the one a handler wrote.
C31_Witness ==
    /\ batches = 2
    /\ n_pc = "idle"
    /\ subscribers # <<>>
    /\ message # NoMessage
    /\ users_to_send = <<>>
    /\ savesInBatch = 0
    /\ \A u \in Ids(subscribers) : HashOf(subscribers, u) = new_message_hash

\* C32: a batch that selected somebody saves the table exactly once, when it
\* ends, after the last selected user was processed, and not while sends are
\* still to come.
C32_SavedOncePerBatch ==
    /\ [][(n_pc # "idle" /\ n_pc' = "idle" /\ exited' = "no")
            => /\ savesInBatch' = 1
               /\ n_idx' = Len(users_to_send)
               /\ store' = Saved(subscribers')]_vars
    /\ [][n_pc' # "idle" => savesInBatch' = 0]_vars

-----------------------------------------------------------------------------
(* More claims about _retry_with_backoff (SpecRetry) *)

\* C33: an invocation that raised an error with none of "429", "quota",
\* "limit" in its text is the last one: the error is raised on at once, with
\* no sleep after it.
C33_NonQuotaFailsAtOnce ==
    \A i \in DOMAIN outcomes :
        (/\ ~outcomes[i].ok
         /\ ~outcomes[i].text.has429
         /\ ~outcomes[i].text.hasQuota
         /\ ~outcomes[i].text.hasLimit)
          => /\ i = Len(outcomes)
             /\ r_pc = "raised"
             /\ Len(sleeps) = i - 1

\* The first invocation hit the quota and was retried after 1 s; the second
\* raised another error, which ended the call with two attempts still unused.
C33_Witness ==
    /\ r_pc = "raised"
    /\ Len(outcomes) = 2
    /\ attempt = 1
    /\ sleeps = <<WaitTime(0)>>
    /\ ~outcomes[2].ok
    /\ outcomes[2].text = [has429 |-> FALSE, hasQuota |-> FALSE, hasLimit |-> FALSE]

-----------------------------------------------------------------------------
(* The latency history (SpecHistory) *)

\* C34: after n recorded durations the history holds the last min(n, 10) of
\* them, in the order they were recorded; it never holds more than 10.
C34_LastTenKept ==
    LET n == Len(recorded)
        k == Len(api_execution_times)
    IN  /\ k <= 10
        /\ k = (IF n <= 10 THEN n ELSE 10)
        /\ \A i \in 1..k : api_execution_times[i] = recorded[n - k + i]

\* Twelve durations were recorded; the history holds ten, and they are not
\* the first ten.
C34_Witness ==
    /\ Len(recorded) = 12
    /\ Len(api_execution_times) = 10
    /\ api_execution_times # SubSeq(recorded, 1, 10)
    /\ api_execution_times[10] = recorded[12]

-----------------------------------------------------------------------------
(* Claims about batches interleaved with the handlers (SpecNotify) *)

\* C35: a subscriber's last_hash is None or the hash of a text that was sent
\* to that subscriber with success.  The table that is loaded satisfies it,
\* and whenever an entry appears or its last_hash changes, the new value is
\* None or the hash of the text whose send to that user has just returned.
C35_HashOfDeliveredText ==
    /\ \A u \in Ids(subscribers) : HashOf(subscribers, u) = NoHash
    /\ [][\A u \in Ids(subscribers') :
            (\/ u \notin Ids(subscribers)
             \/ HashOf(subscribers', u) # HashOf(subscribers, u))
              => \/ HashOf(subscribers', u) = NoHash
                 \/ /\ n_pc = "awaiting"
                    /\ users_to_send[n_idx] = u
                    /\ sendResults'[u] = "ok"
                    /\ HashOf(subscribers', u) = calculate_message_hash(message)]_vars

\* A subscriber was delivered one text; the send of the next text to it has
\* failed, and its last_hash is still that of the text it got.
C35_Witness ==
    /\ batches = 2
    /\ \E u \in Ids(subscribers) :
          /\ sendResults[u] = "transient"
          /\ HashOf(subscribers, u) # NoHash
          /\ HashOf(subscribers, u) # new_message_hash
          /\ delivery[u].msg = message

\* C36: whenever a send of the batch starts, its target is in the table.
C36_SendOnlyToSubscribers ==
    [][(n_pc' = "awaiting" /\ <<n_pc, n_idx, batches>>' # <<n_pc, n_idx, batches>>)
         => users_to_send'[n_idx'] \in Ids(subscribers')]_vars

\* C37: a step of the batch never puts a user into the table, and what the
\* batch saves is the table as it then is: a user who unsubscribed while the
\* batch ran is in neither, until a handler subscribes that user again.
C37_UnsubscribeDurable ==
    [][(n_pc # "idle" /\ <<n_pc, n_idx>>' # <<n_pc, n_idx>> /\ exited' = "no")
         => /\ Ids(subscribers') \subseteq Ids(subscribers)
            /\ (store' # store \/ savesInBatch' # savesInBatch)
                  => /\ store' = Saved(subscribers')
                     /\ \A u \in Users \ Ids(subscribers) :
                            u \notin Ids(load_subscriptions(store'))]_vars

\* A user unsubscribed while the send to it was in flight; the send succeeded,
\* and the batch has ended and saved a table without that user.
C37_Witness ==
    /\ n_pc = "idle"
    /\ savesInBatch = 1
    /\ \E u \in Ids(batchStart) \cap sentInBatch :
          /\ sendResults[u] = "ok"
          /\ u \notin Ids(subscribers)
          /\ u \notin Ids(load_subscriptions(store))

\* C38: a subscriber whose last command (/start leaves it in the table with
\* last_hash None) was handled after the last send to it began is selected by
\* the next batch, whatever the text.
C38_StartForcesResend ==
    [][BatchBegins =>
         \A u \in Ids(subscribers) :
             delivery[u] = NoteCommand(delivery, u)[u]
                => /\ HashOf(subscribers, u) = NoHash
                   /\ \E i \in DOMAIN users_to_send' : users_to_send'[i] = u]_vars

-----------------------------------------------------------------------------
(* The HTTP requests of a monitoring call (SpecApi) *)

\* C39: a monitoring call issues at most three requests, warehouses, then
\* coefficients, then options, each at most once; after a failed warehouses
\* request it issues none, and it issues the options request only when the
\* sheets hold at least one product.
C39_AtMostThreeRequests ==
    LET Order == <<"warehouses", "coefficients", "options">>
        n == Len(http_requests)
    IN  /\ n <= 3
        /\ \A i \in 1..n : http_requests[i].endpoint = Order[i]
        /\ (n >= 1 /\ http_requests[1].response # "200") => n = 1
        /\ n = 3 => AllProducts(all_sheets_data) > 0

\* The coefficients request failed, and the options request was still made:
\* the call has returned after three requests.
C39_Witness ==
    /\ w_pc = "returned"
    /\ Len(http_requests) = 3
    /\ http_requests[2].response # "200"
    /\ errors = <<"coefficients">>
    /\ monitor_calls = 2

-----------------------------------------------------------------------------
(* What a failed cycle leaves behind (Spec) *)

\* C40: a cycle that ends as a failure leaves api_execution_times and
\* last_update as they were, and current_api_requests at the value it had
\* when the cycle began (once the call has returned, line 373 has already
\* added 1 to it).
C40_FailureChangesNothing ==
    [][(pc \in {"top", "parsing", "inflight", "notify"} /\ pc' = "pause"
          /\ ~result'.success)
         => /\ api_execution_times' = api_execution_times
            /\ last_update' = last_update
            /\ current_api_requests' =
                   IF pc = "notify" THEN current_api_requests - 1
                   ELSE current_api_requests]_vars

====
